---- MODULE Spec2Model ----
(***************************************************************************)
(* A model of news_agent.py: NewsAggregator.run and the five stages it     *)
(* calls (fetch_all_news, fetch_google_news, filter_by_keywords,           *)
(* group_articles, save_reports).                                          *)
(*                                                                         *)
(* Text is a sequence of one-character strings.  A point in time is an     *)
(* integer; datetime.isoformat() is an order-preserving injection on naive *)
(* datetimes, so 'published' keeps the integer.  A Python dict is a        *)
(* sequence of [key, val] pairs in insertion order.                        *)
(***************************************************************************)
EXTENDS Integers, Sequences, FiniteSets, TLC

VARIABLES
    feeds_config,       \* self.feeds_config: the loaded feeds.yaml
    web,                \* what feedparser.parse answers for each feed / topic
    clock,              \* what datetime.now() reads in each fetch call
    pc,                 \* position of run()
    fetch_log,          \* per enabled source, the list fetch_rss_feed returned
    rss_articles,       \* run: rss_articles
    google_articles,    \* run: google_articles
    all_articles,       \* run: all_articles
    filtered_articles,  \* run: filtered_articles
    groups,             \* run: groups
    reports             \* what save_reports wrote

vars == <<feeds_config, web, clock, pc, fetch_log, rss_articles,
          google_articles, all_articles, filtered_articles, groups, reports>>

-----------------------------------------------------------------------------
(* Program constants *)

DefaultHoursBack == 24
GoogleMaxPerTopic == 20
TextTopKeywords == 10
SummaryTopKeywords == 20
SummaryTopSources == 10
RecentHeadlines == 10

(* The reading of datetime.now() when the run starts *)
Now0 == 100

-----------------------------------------------------------------------------
(* Generic helpers *)

SeqUpTo(S, n) == UNION {[1..k -> S] : k \in 0..n}

Range(s) == {s[i] : i \in DOMAIN s}

RECURSIVE Concat(_)
Concat(ss) == IF ss = <<>> THEN <<>> ELSE Head(ss) \o Concat(Tail(ss))

Take(s, n) == SubSeq(s, 1, IF Len(s) < n THEN Len(s) ELSE n)

(* Python dict, insertion ordered: d[k] = v *)
DictHas(d, k) == \E i \in DOMAIN d : d[i].key = k

DictGet(d, k) == d[CHOOSE i \in DOMAIN d : d[i].key = k].val

DictPut(d, k, v) ==
    IF DictHas(d, k)
    THEN [i \in DOMAIN d |-> IF d[i].key = k THEN [key |-> k, val |-> v] ELSE d[i]]
    ELSE Append(d, [key |-> k, val |-> v])

(* defaultdict(list): d[k].append(v) *)
DictAppend(d, k, v) ==
    IF DictHas(d, k) THEN DictPut(d, k, Append(DictGet(d, k), v))
    ELSE DictPut(d, k, <<v>>)

DictValues(d) == [i \in DOMAIN d |-> d[i].val]

(* {k: len(v) for k, v in d.items()} *)
DictCounts(d) == [i \in DOMAIN d |-> [key |-> d[i].key, val |-> Len(d[i].val)]]

-----------------------------------------------------------------------------
(* str.lower() and the 'in' operator on strings *)

LowerChar(c) == IF c = "A" THEN "a" ELSE IF c = "B" THEN "b" ELSE c

lower(s) == [i \in 1..Len(s) |-> LowerChar(s[i])]

StrIn(sub, s) ==
    \E i \in 0..(Len(s) - Len(sub)) : SubSeq(s, i + 1, i + Len(sub)) = sub

-----------------------------------------------------------------------------
(* get_enabled_feeds: name -> {url, tags, category}, in the order of the   *)
(* three config sections; a name met again overwrites the earlier data.    *)
(* feeds_config.feeds lists the entries of the sections in that order.     *)

RECURSIVE enabled_from(_, _)
enabled_from(entries, feeds) ==
    IF entries = <<>> THEN feeds
    ELSE LET data == Head(entries) IN
         enabled_from(Tail(entries),
            IF data.enabled
            THEN DictPut(feeds, data.name,
                         [url |-> data.url, tags |-> data.tags,
                          category |-> data.category])
            ELSE feeds)

get_enabled_feeds(config) == enabled_from(config.feeds, <<>>)

-----------------------------------------------------------------------------
(* fetch_rss_feed *)

(* lines 67-75: published_parsed, else updated_parsed, else now; a tuple   *)
(* datetime() rejects lands in the bare except and gives now               *)
rss_pub_date(entry, now) ==
    IF entry.published_parsed.kind # "none"
    THEN (IF entry.published_parsed.kind = "ok" THEN entry.published_parsed.t ELSE now)
    ELSE IF entry.updated_parsed.kind # "none"
    THEN (IF entry.updated_parsed.kind = "ok" THEN entry.updated_parsed.t ELSE now)
    ELSE now

(* entry.get('summary', entry.get('description', '')): feedparser keeps    *)
(* description under the key summary                                       *)
entry_summary(entry) == IF entry.has_summary THEN entry.summary ELSE <<>>

(* lines 65-85: the loop over feed.entries.  entry.title / entry.link of   *)
(* an entry without them raises AttributeError, which leaves the loop.     *)
RECURSIVE rss_entries(_, _, _, _)
rss_entries(entries, source_name, now, cutoff_time) ==
    IF entries = <<>> THEN [raised |-> FALSE, articles |-> <<>>]
    ELSE LET entry == Head(entries)
             pub_date == rss_pub_date(entry, now)
         IN  IF pub_date > cutoff_time
             THEN IF ~entry.has_title \/ ~entry.has_link
                  THEN [raised |-> TRUE, articles |-> <<>>]
                  ELSE LET rest == rss_entries(Tail(entries), source_name, now, cutoff_time)
                       IN  [raised |-> rest.raised,
                            articles |-> <<[title |-> entry.title,
                                            url |-> entry.link,
                                            source |-> source_name,
                                            published |-> pub_date,
                                            description |-> entry_summary(entry)]>>
                                         \o rest.articles]
             ELSE rss_entries(Tail(entries), source_name, now, cutoff_time)

(* the except returns what the loop had appended before the failure *)
fetch_rss_feed_partial(source_name, doc, now, hours_back) ==
    LET cutoff_time == now - hours_back
        r == IF doc.raises THEN [raised |-> TRUE, articles |-> <<>>]
             ELSE rss_entries(doc.entries, source_name, now, cutoff_time)
    IN  r.articles

(* lines 57-91; doc.raises: feedparser.parse itself raised *)
fetch_rss_feed(source_name, doc, now, hours_back) ==
    LET cutoff_time == now - hours_back
        r == IF doc.raises THEN [raised |-> TRUE, articles |-> <<>>]
             ELSE rss_entries(doc.entries, source_name, now, cutoff_time)
    IN  IF r.raised THEN <<>> ELSE r.articles

-----------------------------------------------------------------------------
(* fetch_all_news *)

(* lines 109-115: tags and category of the feed on every article *)
tag_articles(articles, feed_data) ==
    [i \in DOMAIN articles |->
        [tags |-> feed_data.tags, category |-> feed_data.category] @@ articles[i]]

(* lines 107-113, for every enabled feed in dict order: the list          *)
(* fetch_rss_feed returned, with the feed's tags and category on it        *)
fetch_each(feeds, world, clk, hours_back) ==
    [i \in DOMAIN feeds |->
        [source |-> feeds[i].key,
         articles |-> tag_articles(
                        fetch_rss_feed(feeds[i].key, world.rss[feeds[i].val.url],
                                       clk.rss[feeds[i].key], hours_back),
                        feeds[i].val)]]

(* line 115: all_articles.extend(articles), over the whole loop *)
collect_all(log) == Concat([i \in DOMAIN log |-> log[i].articles])

(* line 121: {a['url']: a for a in all_articles}.values() *)
RECURSIVE url_dict(_, _)
url_dict(articles, d) ==
    IF articles = <<>> THEN d
    ELSE url_dict(Tail(articles), DictPut(d, Head(articles).url, Head(articles)))

(* the first article met under a url stays *)
RECURSIVE url_dict_first(_, _)
url_dict_first(articles, d) ==
    IF articles = <<>> THEN d
    ELSE url_dict_first(Tail(articles),
            IF DictHas(d, Head(articles).url) THEN d
            ELSE DictPut(d, Head(articles).url, Head(articles)))

unique_articles_first_wins(articles) == DictValues(url_dict_first(articles, <<>>))

unique_articles(articles) == DictValues(url_dict(articles, <<>>))

-----------------------------------------------------------------------------
(* fetch_google_news *)

(* lines 156-159: published_parsed or now; no other fallback *)
google_pub_date(entry, now) ==
    IF entry.published_parsed.kind = "ok" THEN entry.published_parsed.t ELSE now

(* lines 155-172: the loop over one topic's entries; an entry without      *)
(* title or link raises into the topic's except at line 176, the articles  *)
(* appended before it stay in the list                                     *)
RECURSIVE google_entries(_, _, _, _)
google_entries(entries, topic, now, cutoff_time) ==
    IF entries = <<>> THEN <<>>
    ELSE LET entry == Head(entries)
             pub_date == google_pub_date(entry, now)
         IN  IF pub_date > cutoff_time
             THEN IF ~entry.has_title \/ ~entry.has_link
                  THEN <<>>
                  ELSE <<[title |-> entry.title,
                          url |-> entry.link,
                          source |-> "Google News",
                          published |-> pub_date,
                          description |-> entry_summary(entry),
                          tags |-> <<"google_news">>,
                          category |-> "google_news",
                          search_topic |-> topic]>>
                       \o google_entries(Tail(entries), topic, now, cutoff_time)
             ELSE google_entries(Tail(entries), topic, now, cutoff_time)

google_topic(topic, doc, now, cutoff_time) ==
    IF doc.raises THEN <<>>
    ELSE google_entries(Take(doc.entries, GoogleMaxPerTopic), topic, now, cutoff_time)

(* lines 130-180 *)
fetch_google_news(config, world, clk, hours_back) ==
    LET google_config == config.google_news
        topics == google_config.topics
        cutoff_time == clk.google - hours_back
    IN  IF ~google_config.enabled THEN <<>>
        ELSE IF topics = <<>> THEN <<>>
        ELSE Concat([i \in DOMAIN topics |->
                google_topic(topics[i], world.google[topics[i]], clk.google, cutoff_time)])

-----------------------------------------------------------------------------
(* filter_by_keywords *)

(* line 198: f"{title} {description}".lower() *)
article_text(article) == lower(article.title \o <<" ">> \o article.description)

(* line 201 *)
excluded(text, exclude_keywords) ==
    exclude_keywords # <<>>
    /\ \E i \in DOMAIN exclude_keywords : StrIn(lower(exclude_keywords[i]), text)

(* line 205 *)
included(text, keywords) ==
    \E i \in DOMAIN keywords : StrIn(lower(keywords[i]), text)

(* only the first keyword found is recorded *)
matched_keywords_first_only(text, keywords) ==
    LET Hit(kw) == StrIn(lower(kw), text) IN Take(SelectSeq(keywords, Hit), 1)

(* lines 207-209 *)
matched_keywords_of(text, keywords) ==
    LET Hit(kw) == StrIn(lower(kw), text) IN SelectSeq(keywords, Hit)

(* lines 197-210 *)
RECURSIVE filter_loop(_, _, _)
filter_loop(articles, keywords, exclude_keywords) ==
    IF articles = <<>> THEN <<>>
    ELSE LET article == Head(articles)
             text == article_text(article)
             rest == filter_loop(Tail(articles), keywords, exclude_keywords)
         IN  IF excluded(text, exclude_keywords) THEN rest
             ELSE IF included(text, keywords)
             THEN <<[matched_keywords |-> matched_keywords_of(text, keywords)]
                    @@ article>> \o rest
             ELSE rest

(* lines 182-213 *)
filter_by_keywords(articles, config) ==
    LET keywords == config.filters.keywords
        exclude_keywords == config.filters.exclude_keywords
    IN  IF keywords = <<>>
        THEN [i \in DOMAIN articles |-> [matched_keywords |-> <<>>] @@ articles[i]]
        ELSE filter_loop(articles, keywords, exclude_keywords)

-----------------------------------------------------------------------------
(* group_articles *)

(* lines 228-229 *)
RECURSIVE group_keywords(_, _, _)
group_keywords(by_keyword, keywords, article) ==
    IF keywords = <<>> THEN by_keyword
    ELSE group_keywords(DictAppend(by_keyword, Head(keywords), article),
                        Tail(keywords), article)

(* lines 223-229 *)
RECURSIVE group_loop(_, _)
group_loop(articles, g) ==
    IF articles = <<>> THEN g
    ELSE LET article == Head(articles) IN
         group_loop(Tail(articles),
            [by_source |-> DictAppend(g.by_source, article.source, article),
             by_category |-> DictAppend(g.by_category,
                                IF "category" \in DOMAIN article
                                THEN article.category ELSE "unknown", article),
             by_keyword |-> group_keywords(g.by_keyword,
                                IF "matched_keywords" \in DOMAIN article
                                THEN article.matched_keywords ELSE <<>>, article)])

(* lines 215-231 *)
group_articles(articles) ==
    group_loop(articles, [by_source |-> <<>>, by_category |-> <<>>, by_keyword |-> <<>>])

-----------------------------------------------------------------------------
(* save_reports and generate_text_report *)

(* sorted(..., reverse=True) is stable: an element goes behind every       *)
(* element whose key is not smaller                                        *)
insert_by_count(sorted, x) ==
    LET p == Cardinality({i \in DOMAIN sorted : sorted[i].val >= x.val})
    IN  SubSeq(sorted, 1, p) \o <<x>> \o SubSeq(sorted, p + 1, Len(sorted))

(* sorted(items, key=lambda x: x[1], reverse=True) *)
RECURSIVE sort_by_count(_, _)
sort_by_count(items, sorted) ==
    IF items = <<>> THEN sorted
    ELSE sort_by_count(Tail(items), insert_by_count(sorted, Head(items)))

insert_by_published(sorted, x) ==
    LET p == Cardinality({i \in DOMAIN sorted : sorted[i].published >= x.published})
    IN  SubSeq(sorted, 1, p) \o <<x>> \o SubSeq(sorted, p + 1, Len(sorted))

(* sorted(articles, key=lambda x: x['published'], reverse=True) *)
RECURSIVE sort_by_published(_, _)
sort_by_published(articles, sorted) ==
    IF articles = <<>> THEN sorted
    ELSE sort_by_published(Tail(articles), insert_by_published(sorted, Head(articles)))

(* lines 352-364 *)
top_items(g) ==
    IF g.by_keyword # <<>>
    THEN Take(sort_by_count(DictCounts(g.by_keyword), <<>>), SummaryTopKeywords)
    ELSE Take(sort_by_count(DictCounts(g.by_source), <<>>), SummaryTopSources)

(* lines 371-383 *)
recent_headlines(articles) ==
    LET latest == Take(sort_by_published(articles, <<>>), RecentHeadlines)
    IN  [i \in DOMAIN latest |->
            [title |-> latest[i].title, source |-> latest[i].source,
             url |-> latest[i].url, published |-> latest[i].published]]

(* lines 366-384 *)
summary_data(articles, g) ==
    [total_articles |-> Len(articles),
     sources |-> DictCounts(g.by_source),
     top_keywords |-> top_items(g),
     recent_headlines |-> recent_headlines(articles)]

(* lines 327-336 *)
raw_data(articles, g) ==
    [total_articles |-> Len(articles),
     articles |-> articles,
     groups |-> [by_source |-> DictCounts(g.by_source),
                 by_category |-> DictCounts(g.by_category),
                 by_keyword |-> DictCounts(g.by_keyword)]]

(* generate_text_report, lines 243-272: the counts, the ranking of the     *)
(* sources and the top topics it prints                                    *)
generate_text_report(articles, g) ==
    [total_articles |-> Len(articles),
     n_sources |-> Len(g.by_source),
     source_stats |-> sort_by_count(DictCounts(g.by_source), <<>>),
     top_topics |-> IF g.by_keyword # <<>>
                    THEN Take(sort_by_count(DictCounts(g.by_keyword), <<>>), TextTopKeywords)
                    ELSE <<>>]

(* lines 318-403 *)
save_reports(articles, g) ==
    [written |-> TRUE,
     raw |-> raw_data(articles, g),
     text |-> generate_text_report(articles, g),
     summary |-> summary_data(articles, g)]

-----------------------------------------------------------------------------
(* run: one action per stage it calls *)

hours_back_of(config) == config.filters.hours_back

(* line 415: fetch_all_news(hours_back), lines 93-128 *)
FetchAllNews ==
    /\ pc = "start"
    /\ LET feeds == get_enabled_feeds(feeds_config)
           log == fetch_each(feeds, web, clock, hours_back_of(feeds_config))
       IN  /\ fetch_log' = log
           /\ rss_articles' = unique_articles(collect_all(log))
    /\ pc' = "google"
    /\ UNCHANGED <<feeds_config, web, clock, google_articles, all_articles,
                   filtered_articles, groups, reports>>

(* lines 418-419: fetch_google_news(hours_back) and the concatenation *)
FetchGoogleNews ==
    /\ pc = "google"
    /\ LET found == fetch_google_news(feeds_config, web, clock, hours_back_of(feeds_config))
       IN  /\ google_articles' = found
           /\ all_articles' = rss_articles \o found
    /\ pc' = "filter"
    /\ UNCHANGED <<feeds_config, web, clock, fetch_log, rss_articles,
                   filtered_articles, groups, reports>>

(* lines 422-426: filter_by_keywords, and the return when nothing is left *)
FilterByKeywords ==
    /\ pc = "filter"
    /\ LET kept == filter_by_keywords(all_articles, feeds_config)
       IN  /\ filtered_articles' = kept
           /\ pc' = IF kept = <<>> THEN "done" ELSE "group"
    /\ UNCHANGED <<feeds_config, web, clock, fetch_log, rss_articles,
                   google_articles, all_articles, groups, reports>>

(* line 429 *)
GroupArticles ==
    /\ pc = "group"
    /\ groups' = group_articles(filtered_articles)
    /\ pc' = "save"
    /\ UNCHANGED <<feeds_config, web, clock, fetch_log, rss_articles,
                   google_articles, all_articles, filtered_articles, reports>>

(* line 432 *)
SaveReports ==
    /\ pc = "save"
    /\ reports' = save_reports(filtered_articles, groups)
    /\ pc' = "done"
    /\ UNCHANGED <<feeds_config, web, clock, fetch_log, rss_articles,
                   google_articles, all_articles, filtered_articles, groups>>

Next ==
    \/ FetchAllNews
    \/ FetchGoogleNews
    \/ FilterByKeywords
    \/ GroupArticles
    \/ SaveReports

(* the state run() starts in, whatever the configuration and the feeds *)
InitRun ==
    /\ pc = "start"
    /\ fetch_log = <<>>
    /\ rss_articles = <<>>
    /\ google_articles = <<>>
    /\ all_articles = <<>>
    /\ filtered_articles = <<>>
    /\ groups = [by_source |-> <<>>, by_category |-> <<>>, by_keyword |-> <<>>]
    /\ reports = [written |-> FALSE]

-----------------------------------------------------------------------------
(* The configurations, feeds and clocks a run is checked over *)

NumSources == 2
MaxEntries == 2
MaxTopics == 1
MaxArticles == 3

SourceNames == <<"S1", "S2", "S3", "S4", "S5", "S6", "S7", "S8", "S9", "S10",
                 "S11", "S12", "S13">>

FeedUrls == <<"f1", "f2", "f3", "f4", "f5", "f6", "f7", "f8", "f9", "f10",
              "f11", "f12", "f13">>

TopicNames == <<"q1", "q2", "q3">>

(* the section of feeds.yaml the i-th feed stands in (line 45) *)
SectionOf(i) ==
    IF i = 1 THEN "general_news" ELSE IF i = 2 THEN "tech_news" ELSE "ai_and_regulation"

NoDate == [kind |-> "none"]
BadDate == [kind |-> "bad"]
Date(t) == [kind |-> "ok", t |-> t]

FeedEntry(published, updated, has_title, title, has_link, link, has_summary, summary) ==
    [published_parsed |-> published, updated_parsed |-> updated,
     has_title |-> has_title, title |-> title,
     has_link |-> has_link, link |-> link,
     has_summary |-> has_summary, summary |-> summary]

(* a well-formed entry with a published date *)
PlainEntry(t, title, link) ==
    FeedEntry(Date(t), NoDate, TRUE, title, TRUE, link, FALSE, <<>>)

EmptyDoc == [raises |-> FALSE, entries |-> <<>>]
FailedDoc == [raises |-> TRUE, entries |-> <<>>]

DocsOf(entries, n) == {[raises |-> FALSE, entries |-> es] : es \in SeqUpTo(entries, n)}

FeedList(enabled) ==
    [i \in DOMAIN enabled |->
        [name |-> SourceNames[i], url |-> FeedUrls[i], enabled |-> enabled[i],
         tags |-> <<SourceNames[i]>>, category |-> SectionOf(i)]]

ConfigOf(enabled, google_enabled, topics, keywords, exclude_keywords) ==
    [feeds |-> FeedList(enabled),
     filters |-> [hours_back |-> DefaultHoursBack, keywords |-> keywords,
                  exclude_keywords |-> exclude_keywords],
     google_news |-> [enabled |-> google_enabled, topics |-> topics]]

SteadyClock(n) ==
    [rss |-> [s \in {SourceNames[i] : i \in 1..n} |-> Now0], google |-> Now0]

-----------------------------------------------------------------------------
(* Collection over several sources and a topic search *)

Stale == Now0 - DefaultHoursBack
Fresh == Now0 - DefaultHoursBack + 2

CollectEntries ==
    {PlainEntry(Stale, <<"a">>, "u1"),
     PlainEntry(Fresh, <<"a">>, "u1"),
     PlainEntry(Fresh, <<"b">>, "u1"),
     PlainEntry(Fresh, <<"a">>, "u2"),
     FeedEntry(Date(Fresh), NoDate, FALSE, <<>>, TRUE, "u1", FALSE, <<>>)}

CollectTopicEntries == {PlainEntry(Fresh, <<"a">>, "u1")}

(* a configured feed whose document holds k entries: with none it is       *)
(* disabled or its fetch fails, otherwise it answers the k entries         *)
SourceCases(k) ==
    IF k = 0
    THEN {[enabled |-> FALSE, doc |-> EmptyDoc],
          [enabled |-> TRUE, doc |-> FailedDoc]}
    ELSE {[enabled |-> TRUE, doc |-> [raises |-> FALSE, entries |-> es]] :
            es \in [1..k -> CollectEntries]}

(* n feeds holding k entries between them *)
RECURSIVE SourceLayouts(_, _)
SourceLayouts(n, k) ==
    IF n = 0 THEN (IF k = 0 THEN {<<>>} ELSE {})
    ELSE UNION {{Append(l, c) : l \in SourceLayouts(n - 1, k - j), c \in SourceCases(j)} :
                  j \in 0..k}

TopicCases(k) ==
    IF k = 0 THEN {FailedDoc}
    ELSE {[raises |-> FALSE, entries |-> es] : es \in [1..k -> CollectTopicEntries]}

(* n search topics holding k entries between them *)
RECURSIVE TopicLayouts(_, _)
TopicLayouts(n, k) ==
    IF n = 0 THEN (IF k = 0 THEN {<<>>} ELSE {})
    ELSE UNION {{Append(l, c) : l \in TopicLayouts(n - 1, k - j), c \in TopicCases(j)} :
                  j \in 0..k}

(* NumSources feeds and up to MaxTopics topics, with at most MaxArticles   *)
(* entries in all their documents together                                 *)
Init ==
    /\ InitRun
    /\ \E k \in 0..MaxArticles, j \in 0..MaxArticles, t \in 0..MaxTopics :
          /\ k + j <= MaxArticles
          /\ \E l \in SourceLayouts(NumSources, k), d \in TopicLayouts(t, j) :
                /\ feeds_config = ConfigOf([i \in 1..NumSources |-> l[i].enabled], t > 0,
                                           SubSeq(TopicNames, 1, t), <<>>, <<>>)
                /\ web = [rss |-> [u \in {FeedUrls[i] : i \in 1..NumSources} |->
                                     l[CHOOSE i \in 1..NumSources : FeedUrls[i] = u].doc],
                          google |-> [q \in {TopicNames[i] : i \in 1..MaxTopics} |->
                                        IF \E i \in 1..t : TopicNames[i] = q
                                        THEN d[CHOOSE i \in 1..t : TopicNames[i] = q]
                                        ELSE EmptyDoc]]
    /\ clock = SteadyClock(NumSources)

Spec == Init /\ [][Next]_vars

-----------------------------------------------------------------------------
(* Properties of collection *)

UniqueUrls(articles) ==
    \A i, j \in DOMAIN articles : articles[i].url = articles[j].url => i = j

Urls(articles) == {articles[i].url : i \in DOMAIN articles}

RssEnabled == \E i \in DOMAIN feeds_config.feeds : feeds_config.feeds[i].enabled

GoogleEnabled ==
    feeds_config.google_news.enabled /\ feeds_config.google_news.topics # <<>>

(* C1: with RSS and topic search both enabled, the article set handed to   *)
(* the filter, to the grouper and to the report writer holds no two        *)
(* articles with the same url.                                             *)
C1_UniqueUrlsHandedOn ==
    (RssEnabled /\ GoogleEnabled) =>
        /\ pc \in {"filter", "group", "save", "done"} => UniqueUrls(all_articles)
        /\ pc \in {"group", "save", "done"} => UniqueUrls(filtered_articles)
        /\ reports.written => UniqueUrls(reports.raw.articles)

(* every article the sources gave, in source-iteration order *)
Collected == Concat([i \in DOMAIN fetch_log |-> fetch_log[i].articles])

LastWith(articles, url) ==
    articles[CHOOSE k \in DOMAIN articles :
                /\ articles[k].url = url
                /\ \A m \in DOMAIN articles : articles[m].url = url => m <= k]

(* C2: for every url among the collected articles, fetch_all_news returns  *)
(* exactly one article with that url, and it is, field for field, the      *)
(* occurrence met last in source-iteration order.                          *)
C2_LastOccurrenceKept ==
    pc # "start" =>
        \A u \in Urls(Collected) :
            /\ Cardinality({i \in DOMAIN rss_articles : rss_articles[i].url = u}) = 1
            /\ \A i \in DOMAIN rss_articles :
                  rss_articles[i].url = u => rss_articles[i] = LastWith(Collected, u)

(* two sources gave the same url with different fields, and the first      *)
(* source's article is not the one returned                                *)
C2_Witness ==
    /\ pc = "google"
    /\ \E k, m \in DOMAIN Collected :
          /\ k < m
          /\ Collected[k].url = Collected[m].url
          /\ Collected[k].source # Collected[m].source
          /\ Collected[k].title # Collected[m].title
          /\ Collected[m] \in Range(rss_articles)
          /\ Collected[k] \notin Range(rss_articles)

(* the enabled feeds in iteration order, read off the configuration *)
EnabledFeeds == SelectSeq(feeds_config.feeds, LAMBDA f : f.enabled)

CutoffOf(now) == now - feeds_config.filters.hours_back

InWindow(entry, now) == rss_pub_date(entry, now) > CutoffOf(now)

(* fetching or parsing the source raised *)
SourceFailed(f) ==
    LET doc == web.rss[f.url] IN
    \/ doc.raises
    \/ \E k \in DOMAIN doc.entries :
          /\ InWindow(doc.entries[k], clock.rss[f.name])
          /\ ~(doc.entries[k].has_title /\ doc.entries[k].has_link)

(* C5: a source whose fetch or parse fails contributes no article, and     *)
(* every enabled source is still fetched: the in-window articles of every  *)
(* source that did not fail are in the result of fetch_all_news.           *)
C5_FailureStaysInItsSource ==
    pc # "start" =>
        /\ Len(fetch_log) = Len(EnabledFeeds)
        /\ \A i \in DOMAIN EnabledFeeds :
              LET f == EnabledFeeds[i]
                  doc == web.rss[f.url]
              IN  /\ fetch_log[i].source = f.name
                  /\ SourceFailed(f) =>
                        /\ fetch_log[i].articles = <<>>
                        /\ \A j \in DOMAIN rss_articles : rss_articles[j].source # f.name
                  /\ ~SourceFailed(f) =>
                        \A k \in DOMAIN doc.entries :
                            InWindow(doc.entries[k], clock.rss[f.name]) =>
                                /\ \E a \in Range(fetch_log[i].articles) :
                                      /\ a.url = doc.entries[k].link
                                      /\ a.title = doc.entries[k].title
                                      /\ a.source = f.name
                                /\ doc.entries[k].link \in Urls(rss_articles)

(* one source failed, an earlier and a later one did not, and both have    *)
(* an article in the result                                                *)
C5_Witness ==
    /\ pc = "google"
    /\ \E i, j \in DOMAIN EnabledFeeds :
          /\ i < j
          /\ SourceFailed(EnabledFeeds[i])
          /\ ~SourceFailed(EnabledFeeds[j])
          /\ \E a \in Range(rss_articles) : a.source = EnabledFeeds[j].name

-----------------------------------------------------------------------------
(* One feed, or one search topic, with every shape of entry: dates that    *)
(* are missing, unusable, at, before and after the cutoff; entries without *)
(* title or link                                                           *)

EntryTimes ==
    {Now0 - DefaultHoursBack - 1, Now0 - DefaultHoursBack, Now0 - DefaultHoursBack + 1}

EntryDates == {Date(t) : t \in EntryTimes}

ShapedEntries ==
    {FeedEntry(p, u, TRUE, <<"a">>, TRUE, link, FALSE, <<>>) :
        p \in {NoDate, BadDate} \cup EntryDates, u \in {NoDate} \cup EntryDates,
        link \in {"u1", "u2"}}
    \cup {FeedEntry(p, u, FALSE, <<>>, TRUE, link, FALSE, <<>>) :
        p \in {NoDate, BadDate} \cup EntryDates, u \in {NoDate} \cup EntryDates,
        link \in {"u1", "u2"}}
    \cup {FeedEntry(p, u, TRUE, <<"a">>, FALSE, "", FALSE, <<>>) :
        p \in {NoDate, BadDate} \cup EntryDates, u \in {NoDate} \cup EntryDates}

ClockOf(n, rss_now, google_now) ==
    [rss |-> [s \in {SourceNames[i] : i \in 1..n} |-> rss_now], google |-> google_now]

NoTopicAnswers == [q \in {TopicNames[k] : k \in 1..MaxTopics} |-> EmptyDoc]

InitEntries ==
    /\ InitRun
    /\ \/ /\ feeds_config = ConfigOf(<<TRUE>>, TRUE, <<TopicNames[1]>>, <<>>, <<>>)
          /\ web \in {[rss |-> [u \in {FeedUrls[1]} |-> EmptyDoc],
                       google |-> [NoTopicAnswers EXCEPT ![TopicNames[1]] = d]] :
                        d \in DocsOf(ShapedEntries, MaxEntries)}
          /\ clock \in {ClockOf(1, Now0, Now0 + d) : d \in {0, 1}}
       \/ /\ feeds_config = ConfigOf(<<TRUE>>, FALSE, <<>>, <<>>, <<>>)
          /\ web \in {[rss |-> [u \in {FeedUrls[1]} |-> d], google |-> NoTopicAnswers] :
                        d \in DocsOf(ShapedEntries, MaxEntries)}
          /\ clock \in {ClockOf(1, Now0 + d, Now0 + 1) : d \in {0, 1}}

SpecEntries == InitEntries /\ [][Next]_vars

WellFormed(entry) == entry.has_title /\ entry.has_link

Returned(articles, entry, pub_date) ==
    \E a \in Range(articles) :
        a.url = entry.link /\ a.title = entry.title /\ a.published = pub_date

(* C4: an entry without title or link is the only one skipped; every other *)
(* in-window entry of the feed, before or after it, is returned by         *)
(* fetch_rss_feed.                                                         *)
C4_OnlyTheMalformedEntryIsSkipped ==
    pc # "start" =>
        \A i \in DOMAIN EnabledFeeds :
            LET f == EnabledFeeds[i]
                doc == web.rss[f.url]
                now == clock.rss[f.name]
            IN  ~doc.raises =>
                    \A k \in DOMAIN doc.entries :
                        (WellFormed(doc.entries[k]) /\ InWindow(doc.entries[k], now)) =>
                            Returned(fetch_log[i].articles, doc.entries[k],
                                     rss_pub_date(doc.entries[k], now))

(* the entries of a topic that fetch_google_news looks at *)
TopicEntries(q) == Take(web.google[q].entries, GoogleMaxPerTopic)

(* C6: every article collection returns was published strictly after the   *)
(* cutoff (the fetch's now minus hours_back), and every entry published     *)
(* after the cutoff is returned, in the feeds and in the topic search.      *)
C6_StrictTimeWindow ==
    /\ pc # "start" =>
          \A i \in DOMAIN EnabledFeeds :
              LET f == EnabledFeeds[i]
                  doc == web.rss[f.url]
                  now == clock.rss[f.name]
              IN  /\ \A a \in Range(fetch_log[i].articles) : a.published > CutoffOf(now)
                  /\ \A k \in DOMAIN doc.entries :
                        (WellFormed(doc.entries[k])
                         /\ rss_pub_date(doc.entries[k], now) > CutoffOf(now)) =>
                            Returned(fetch_log[i].articles, doc.entries[k],
                                     rss_pub_date(doc.entries[k], now))
    /\ (pc \notin {"start", "google"} /\ GoogleEnabled) =>
          /\ \A a \in Range(google_articles) : a.published > CutoffOf(clock.google)
          /\ \A q \in Range(feeds_config.google_news.topics) :
                \A k \in DOMAIN TopicEntries(q) :
                    LET entry == TopicEntries(q)[k] IN
                    (WellFormed(entry)
                     /\ google_pub_date(entry, clock.google) > CutoffOf(clock.google)) =>
                        Returned(google_articles, entry, google_pub_date(entry, clock.google))

(* published when usable, else updated when usable, else the fetch's now *)
EffectiveTime(entry, now) ==
    IF entry.published_parsed.kind = "ok" THEN entry.published_parsed.t
    ELSE IF entry.updated_parsed.kind = "ok" THEN entry.updated_parsed.t
    ELSE now

AllWellFormed(entries) == \A k \in DOMAIN entries : WellFormed(entries[k])

(* C9: in the feeds and in the topic search alike, an entry is returned    *)
(* exactly when its effective time (published, else updated, else now) is  *)
(* after the cutoff, and the article carries that time.  Stated for feeds  *)
(* all of whose entries have title and link.                               *)
C9_SameDatePolicyInBothModes ==
    pc \notin {"start", "google"} =>
        /\ \A i \in DOMAIN EnabledFeeds :
              LET f == EnabledFeeds[i]
                  doc == web.rss[f.url]
                  now == clock.rss[f.name]
              IN  (~doc.raises /\ AllWellFormed(doc.entries)) =>
                    \A k \in DOMAIN doc.entries :
                        (EffectiveTime(doc.entries[k], now) > CutoffOf(now))
                        <=> Returned(fetch_log[i].articles, doc.entries[k],
                                     EffectiveTime(doc.entries[k], now))
        /\ GoogleEnabled =>
              \A q \in Range(feeds_config.google_news.topics) :
                  (~web.google[q].raises /\ AllWellFormed(TopicEntries(q))) =>
                    \A k \in DOMAIN TopicEntries(q) :
                        (EffectiveTime(TopicEntries(q)[k], clock.google) > CutoffOf(clock.google))
                        <=> Returned(google_articles, TopicEntries(q)[k],
                                     EffectiveTime(TopicEntries(q)[k], clock.google))

-----------------------------------------------------------------------------
(* One feed whose entries carry every short title, under every short       *)
(* include and exclude list                                                *)

MaxKeywords == 2
MaxExclude == 1

Letters == {"a", "A", "b"}

OneLetter == {<<c>> : c \in Letters}

TwoLetters == {<<c, d>> : c, d \in Letters}

Titles == OneLetter \cup TwoLetters

Terms == OneLetter \cup {<<"a", "b">>, <<"A", "b">>, <<"b", "a">>}

FilterEntries ==
    {FeedEntry(Date(Fresh), NoDate, TRUE, title, TRUE, "u1", FALSE, <<>>) : title \in Titles}
    \cup {FeedEntry(Date(Fresh), NoDate, TRUE, title, TRUE, "u1", TRUE, <<"B">>) :
            title \in OneLetter \cup {<<"a", "b">>}}

InitFilter ==
    /\ InitRun
    /\ feeds_config \in {ConfigOf(<<TRUE>>, FALSE, <<>>, keywords, exclude_keywords) :
                            keywords \in SeqUpTo(Terms, MaxKeywords),
                            exclude_keywords \in SeqUpTo(Terms, MaxExclude)}
    /\ web \in {[rss |-> [u \in {FeedUrls[1]} |-> [raises |-> FALSE, entries |-> <<e>>]],
                 google |-> NoTopicAnswers] : e \in FilterEntries}
    /\ clock = SteadyClock(1)

SpecFilter == InitFilter /\ [][Next]_vars

(* the title and the description as filter_by_keywords joins them *)
TitlePlusDescription(article) == article.title \o <<" ">> \o article.description

SameLetter(c, d) ==
    \/ c = d
    \/ {c, d} = {"a", "A"}
    \/ {c, d} = {"b", "B"}

(* term is a substring of text, letter case aside *)
CaseInsensitiveSubstring(term, text) ==
    \E off \in 0..(Len(text) - Len(term)) :
        \A j \in 1..Len(term) : SameLetter(term[j], text[off + j])

ExcludeTermMatches(article) ==
    \E i \in DOMAIN feeds_config.filters.exclude_keywords :
        CaseInsensitiveSubstring(feeds_config.filters.exclude_keywords[i],
                                 TitlePlusDescription(article))

IncludeTermsMatching(article) ==
    LET Hit(term) == CaseInsensitiveSubstring(term, TitlePlusDescription(article))
    IN  SelectSeq(feeds_config.filters.keywords, Hit)

Filtered == pc \in {"group", "save", "done"}

(* C3: whatever the include list, empty or not, no article that an exclude *)
(* term matches is in the output of filter_by_keywords.                    *)
C3_ExcludedNeverPasses ==
    Filtered => \A a \in Range(filtered_articles) : ~ExcludeTermMatches(a)

(* C8: with a non-empty include list, the articles no exclude term matches *)
(* that are in the output are exactly those an include term matches, in    *)
(* their order, each with matched_keywords = the include terms that match  *)
(* it, all of them, in the order of the include list.                      *)
C8_IncludeMatchesAnnotated ==
    (Filtered /\ feeds_config.filters.keywords # <<>>) =>
        LET NotExcluded(a) == ~ExcludeTermMatches(a)
            Matched(a) == IncludeTermsMatching(a) # <<>>
            expected == SelectSeq(SelectSeq(all_articles, NotExcluded), Matched)
        IN  SelectSeq(filtered_articles, NotExcluded) =
                [i \in DOMAIN expected |->
                    [matched_keywords |-> IncludeTermsMatching(expected[i])] @@ expected[i]]

(* an article passed with two different include terms matched, one of     *)
(* them through a capital letter, while an exclude list was set            *)
C8_Witness ==
    /\ pc = "group"
    /\ feeds_config.filters.exclude_keywords # <<>>
    /\ \E a \in Range(filtered_articles) :
          /\ Len(a.matched_keywords) = 2
          /\ a.matched_keywords[1] # a.matched_keywords[2]
          /\ \E i \in 1..2 : ~StrIn(a.matched_keywords[i], TitlePlusDescription(a))

Occurrences(articles, a) == Cardinality({i \in DOMAIN articles : articles[i] = a})

RECURSIVE TotalSize(_)
TotalSize(d) == IF d = <<>> THEN 0 ELSE Len(Head(d).val) + TotalSize(Tail(d))

Grouped == pc = "save" \/ reports.written

(* C7: every filtered article stands exactly once in by_source, under its  *)
(* source, and exactly once in by_category, under its category, so the     *)
(* group sizes of each sum to the number of articles; in by_keyword it     *)
(* stands exactly once under each distinct keyword of its matched_keywords *)
(* and under no other key.                                                 *)
C7_EachArticleGroupedOnce ==
    Grouped =>
        /\ TotalSize(groups.by_source) = Len(filtered_articles)
        /\ TotalSize(groups.by_category) = Len(filtered_articles)
        /\ \A a \in Range(filtered_articles) :
              /\ \A i \in DOMAIN groups.by_source :
                    Occurrences(groups.by_source[i].val, a) =
                        IF groups.by_source[i].key = a.source
                        THEN Occurrences(filtered_articles, a) ELSE 0
              /\ \A i \in DOMAIN groups.by_category :
                    Occurrences(groups.by_category[i].val, a) =
                        IF groups.by_category[i].key = a.category
                        THEN Occurrences(filtered_articles, a) ELSE 0
              /\ DictHas(groups.by_source, a.source)
              /\ DictHas(groups.by_category, a.category)
              /\ \A i \in DOMAIN groups.by_keyword :
                    Occurrences(groups.by_keyword[i].val, a) =
                        IF groups.by_keyword[i].key \in Range(a.matched_keywords)
                        THEN Occurrences(filtered_articles, a) ELSE 0
              /\ \A k \in Range(a.matched_keywords) : DictHas(groups.by_keyword, k)

-----------------------------------------------------------------------------
(* One feed whose titles hold up to ReportTerms different letters, each of *)
(* them a keyword of the include list                                      *)

ReportTerms == 11

ReportLetters == <<"c", "d", "e", "f", "g", "h", "i", "j", "k", "l", "m", "n", "o">>

ReportEntries ==
    {PlainEntry(t, SubSeq(ReportLetters, 1, k), link) :
        t \in {Fresh, Fresh + 1}, k \in 1..ReportTerms, link \in {"u1", "u2"}}

InitReport ==
    /\ InitRun
    /\ feeds_config \in {ConfigOf(<<TRUE>>, FALSE, <<>>,
                                  [i \in 1..n |-> <<ReportLetters[i]>>], <<>>) :
                            n \in 0..ReportTerms}
    /\ web \in {[rss |-> [u \in {FeedUrls[1]} |-> d], google |-> NoTopicAnswers] :
                  d \in DocsOf(ReportEntries, MaxEntries)}
    /\ clock = SteadyClock(1)

SpecReport == InitReport /\ [][Next]_vars

Descending(items) ==
    \A i, j \in DOMAIN items : i < j => items[i].val >= items[j].val

(* top is the n entries of counts with the largest counts, largest first *)
LargestOf(top, counts, n) ==
    /\ Len(top) = (IF Len(counts) < n THEN Len(counts) ELSE n)
    /\ Descending(top)
    /\ \A i \in DOMAIN top : top[i] \in Range(counts)
    /\ \A i, j \in DOMAIN top : top[i].key = top[j].key => i = j
    /\ \A c \in Range(counts) :
          (\A i \in DOMAIN top : top[i].key # c.key) =>
              \A i \in DOMAIN top : top[i].val >= c.val

(* C10: top_keywords of the summary holds at most 10 entries, by falling   *)
(* article count: the 10 largest keywords when by_keyword is not empty,    *)
(* else the 10 largest sources; recent_headlines holds at most the 10      *)
(* articles published last, latest first.                                  *)
C10_TopTenInSummary ==
    reports.written =>
        /\ Len(reports.summary.top_keywords) <= 10
        /\ LargestOf(reports.summary.top_keywords,
                     IF groups.by_keyword # <<>> THEN DictCounts(groups.by_keyword)
                     ELSE DictCounts(groups.by_source),
                     10)
        /\ LET recent == reports.summary.recent_headlines IN
           /\ Len(recent) = (IF Len(filtered_articles) < 10 THEN Len(filtered_articles) ELSE 10)
           /\ \A i, j \in DOMAIN recent : i < j => recent[i].published >= recent[j].published
           /\ \A i \in DOMAIN recent :
                 \E a \in Range(filtered_articles) :
                     recent[i] = [title |-> a.title, source |-> a.source,
                                  url |-> a.url, published |-> a.published]
           /\ Len(recent) = Len(filtered_articles) =>
                 \A a \in Range(filtered_articles) :
                     \E i \in DOMAIN recent : recent[i].url = a.url /\ recent[i].title = a.title

====
